---- MODULE Spec2Model ----
(***************************************************************************)
(* Carousel (src/carousel.ts, src/src/carousel.ts, src/carousel.js): the   *)
(* navigation/state engine, its render pass and its autoplay timer.        *)
(*                                                                         *)
(* Every handler runs to completion on the single UI thread, so each       *)
(* handler is one atomic action.  The methods of the class are operators   *)
(* from an object record to the object record after the call; an action    *)
(* applies one method to the current object and stores the result.         *)
(*                                                                         *)
(* Interval handles: setInterval returns an integer > 0 that names no live *)
(* timer.  Handles are kept up to renaming: the model hands out the least  *)
(* integer that names no live timer and is not the handle being replaced   *)
(* by the call (browsers number timers upwards, so a handle just cleared   *)
(* is not handed out again).                                               *)
(***************************************************************************)
EXTENDS Integers, FiniteSets, Sequences, TLC

\* ---------------------------------------------------------------- bounds
MaxSlides == 4      \* slide counts 0..MaxSlides are explored
MaxTimers == 2      \* at most this many interval timers are live at once
KMargin   == 1      \* goToSlide arguments range over -KMargin..MaxSlides-1+KMargin

\* ------------------------------------------------------------- constants
NULL == 0           \* autoPlayTimer: number | null; interval handles are > 0
DefaultInterval == 3000   \* config.autoPlayInterval || 3000
BootInterval == 4000      \* autoPlayInterval of the DOMContentLoaded bootstrap
swipeThreshold == 50      \* const swipeThreshold = 50

SlideCounts == 0..MaxSlides
IndexArgs   == (0 - KMargin)..(MaxSlides - 1 + KMargin)
Handles     == 1..(MaxTimers + 1)
TickWindow  == MaxSlides + 1

\* Selectors looked up by the constructor through getElement, in call order.
RequiredSelectors ==
    <<"#carouselTrack", "#prevBtn", "#nextBtn", "#carouselIndicators",
      "#currentSlide", "#totalSlides", "#playPauseBtn">>

Selectors == {RequiredSelectors[i] : i \in 1..Len(RequiredSelectors)}

\* An optional property of the config object: << >> when absent, <<v>> when
\* present with value v.
IntervalArgs == {0, 0 - BootInterval, BootInterval}
Configs ==
    [autoPlayInterval : {<< >>} \cup {<<v>> : v \in IntervalArgs},
     enableAutoPlay   : {<< >>, <<TRUE>>, <<FALSE>>},
     enableLoop       : {<< >>, <<TRUE>>, <<FALSE>>}]

\* screenX samples: differences of 0, 1, swipeThreshold and swipeThreshold+1
ScreenXs == {0, swipeThreshold, swipeThreshold + 1}

VARIABLES
    currentIndex,    \* this.currentIndex
    totalSlides,     \* this.totalSlides
    enableLoop,      \* this.enableLoop
    isPlaying,       \* this.isPlaying
    autoPlayTimer,   \* this.autoPlayTimer: NULL or an interval handle
    timers,          \* the window's live interval timers created by this carousel
    trackOffset,     \* percentage of track.style.transform = translateX(..%)
    indicators,      \* indicators[i]: indicator i carries the class 'active'
    counterText,     \* number shown by currentSlideElement.textContent
    prevDisabled,    \* prevBtn.disabled
    nextDisabled,    \* nextBtn.disabled
    playClass,       \* playPauseBtn carries the class 'playing'
    playLabel,       \* text of the span inside playPauseBtn
    playIcon,        \* shape drawn by the svg inside playPauseBtn
    autoPlayInterval,\* this.autoPlayInterval
    totalText,       \* number shown by totalSlidesElement.textContent
    listeners,       \* attachEventListeners has run
    touchStartX,     \* touchStartX of addTouchSupport's closure
    thrown,          \* "none", or the selector whose lookup threw
    rendered,        \* history: the last handler ran updateCarousel
    lastOp,          \* history: the last handler and its argument
    pre,             \* history: the object before the last handler
    run              \* history: ticks since autoplay was started, no other input

vars == <<currentIndex, totalSlides, enableLoop, isPlaying, autoPlayTimer,
          timers, trackOffset, indicators, counterText, prevDisabled,
          nextDisabled, playClass, playLabel, playIcon, autoPlayInterval,
          totalText, listeners, touchStartX, thrown, rendered, lastOp,
          pre, run>>

\* The object and the presentation elements it owns, as one record.
this ==
    [currentIndex  |-> currentIndex,
     totalSlides   |-> totalSlides,
     enableLoop    |-> enableLoop,
     isPlaying     |-> isPlaying,
     autoPlayTimer |-> autoPlayTimer,
     timers        |-> timers,
     trackOffset   |-> trackOffset,
     indicators    |-> indicators,
     counterText   |-> counterText,
     prevDisabled  |-> prevDisabled,
     nextDisabled  |-> nextDisabled,
     playClass     |-> playClass,
     playLabel     |-> playLabel,
     playIcon      |-> playIcon,
     autoPlayInterval |-> autoPlayInterval,
     totalText     |-> totalText,
     listeners     |-> listeners,
     touchStartX   |-> touchStartX,
     thrown        |-> thrown,
     rendered      |-> FALSE]

\* ------------------------------------------------------- window timers
clearInterval(live, h) == live \ {h}

setInterval(live, replaced) ==
    CHOOSE h \in Handles :
        /\ h \notin live
        /\ h # replaced
        /\ \A g \in Handles : (g \notin live /\ g # replaced) => h <= g

\* ------------------------------------------------------------ rendering
updateIndicators_neverRemoves(s) ==
    [s EXCEPT !.indicators =
        [i \in DOMAIN s.indicators |-> s.indicators[i] \/ i = s.currentIndex]]

updateIndicators(s) ==
    [s EXCEPT !.indicators =
        [i \in DOMAIN s.indicators |-> i = s.currentIndex]]

updateNavigationButtons_ignoresLoop(s) ==
    [s EXCEPT !.prevDisabled = (s.currentIndex = 0),
              !.nextDisabled = (s.currentIndex = s.totalSlides - 1)]

updateNavigationButtons(s) ==
    IF ~s.enableLoop
    THEN [s EXCEPT !.prevDisabled = (s.currentIndex = 0),
                   !.nextDisabled = (s.currentIndex = s.totalSlides - 1)]
    ELSE s

resetAutoPlay_clearsOnly(s) ==
    IF s.autoPlayTimer # NULL
    THEN [s EXCEPT !.timers = clearInterval(@, s.autoPlayTimer)]
    ELSE s

resetAutoPlay(s) ==
    LET live == IF s.autoPlayTimer # NULL
                THEN clearInterval(s.timers, s.autoPlayTimer)
                ELSE s.timers
        h    == setInterval(live, s.autoPlayTimer)
    IN  [s EXCEPT !.timers = live \cup {h}, !.autoPlayTimer = h]

\* The render pass, statement by statement; each statement's result is bound
\* as a value (x \in {e}) so that it is computed once.
updateCarousel_alwaysResets(s) ==
    CHOOSE out \in
        {resetAutoPlay(buttons) :
          buttons \in {updateNavigationButtons(counted) :
            counted \in {[marked EXCEPT
                             !.counterText = marked.currentIndex + 1] :
              marked \in {updateIndicators(moved) :
                moved \in {[obj EXCEPT
                               !.trackOffset = (0 - obj.currentIndex) * 100,
                               !.rendered = TRUE] : obj \in {s}}}}}} : TRUE

updateCarousel(s) ==
    CHOOSE out \in
        {IF buttons.isPlaying THEN resetAutoPlay(buttons) ELSE buttons :
          buttons \in {updateNavigationButtons(counted) :
            counted \in {[marked EXCEPT
                             !.counterText = marked.currentIndex + 1] :
              marked \in {updateIndicators(moved) :
                moved \in {[obj EXCEPT
                               !.trackOffset = (0 - obj.currentIndex) * 100,
                               !.rendered = TRUE] : obj \in {s}}}}}} : TRUE

\* ----------------------------------------------------------- navigation
previousSlide_offByOne(s) ==
    updateCarousel(
        IF s.currentIndex > 0
        THEN [s EXCEPT !.currentIndex = @ - 1]
        ELSE IF s.enableLoop
             THEN [s EXCEPT !.currentIndex = s.totalSlides]
             ELSE s)

previousSlide_noWrap(s) ==
    updateCarousel(
        IF s.currentIndex > 0
        THEN [s EXCEPT !.currentIndex = @ - 1]
        ELSE s)

previousSlide(s) ==
    updateCarousel(
        IF s.currentIndex > 0
        THEN [s EXCEPT !.currentIndex = @ - 1]
        ELSE IF s.enableLoop
             THEN [s EXCEPT !.currentIndex = s.totalSlides - 1]
             ELSE s)

nextSlide_ignoresLoop(s) ==
    updateCarousel(
        IF s.currentIndex < s.totalSlides - 1
        THEN [s EXCEPT !.currentIndex = @ + 1]
        ELSE [s EXCEPT !.currentIndex = 0])

nextSlide_inclusiveBound(s) ==
    updateCarousel(
        IF s.currentIndex <= s.totalSlides - 1
        THEN [s EXCEPT !.currentIndex = @ + 1]
        ELSE IF s.enableLoop
             THEN [s EXCEPT !.currentIndex = 0]
             ELSE s)

nextSlide_noRenderAtEnd(s) ==
    IF s.currentIndex < s.totalSlides - 1
    THEN updateCarousel([s EXCEPT !.currentIndex = @ + 1])
    ELSE IF s.enableLoop
         THEN updateCarousel([s EXCEPT !.currentIndex = 0])
         ELSE s

nextSlide(s) ==
    updateCarousel(
        IF s.currentIndex < s.totalSlides - 1
        THEN [s EXCEPT !.currentIndex = @ + 1]
        ELSE IF s.enableLoop
             THEN [s EXCEPT !.currentIndex = 0]
             ELSE s)

goToSlide_skipsFirst(s, index) ==
    IF index > 0 /\ index < s.totalSlides
    THEN updateCarousel([s EXCEPT !.currentIndex = index])
    ELSE s

goToSlide_alwaysRenders(s, index) ==
    updateCarousel(
        IF index >= 0 /\ index < s.totalSlides
        THEN [s EXCEPT !.currentIndex = index]
        ELSE s)

goToSlide(s, index) ==
    IF index >= 0 /\ index < s.totalSlides
    THEN updateCarousel([s EXCEPT !.currentIndex = index])
    ELSE s

\* ------------------------------------------------------------- autoplay
startAutoPlay_noClass(s) ==
    LET h == setInterval(s.timers, s.autoPlayTimer)
    IN  [s EXCEPT !.isPlaying = TRUE,
                  !.playLabel = "Pause",
                  !.playIcon = "bars",
                  !.timers = @ \cup {h},
                  !.autoPlayTimer = h]

startAutoPlay(s) ==
    LET h == setInterval(s.timers, s.autoPlayTimer)
    IN  [s EXCEPT !.isPlaying = TRUE,
                  !.playClass = TRUE,
                  !.playLabel = "Pause",
                  !.playIcon = "bars",
                  !.timers = @ \cup {h},
                  !.autoPlayTimer = h]

stopAutoPlay_keepsHandle(s) ==
    LET shown == [s EXCEPT !.isPlaying = FALSE,
                           !.playClass = FALSE,
                           !.playLabel = "Lecture automatique",
                           !.playIcon = "triangle"]
    IN  IF shown.autoPlayTimer # NULL
        THEN [shown EXCEPT !.timers = clearInterval(@, shown.autoPlayTimer)]
        ELSE shown

stopAutoPlay(s) ==
    LET shown == [s EXCEPT !.isPlaying = FALSE,
                           !.playClass = FALSE,
                           !.playLabel = "Lecture automatique",
                           !.playIcon = "triangle"]
    IN  IF shown.autoPlayTimer # NULL
        THEN [shown EXCEPT !.timers = clearInterval(@, shown.autoPlayTimer),
                           !.autoPlayTimer = NULL]
        ELSE shown

toggleAutoPlay_alwaysStarts(s) == startAutoPlay(s)

toggleAutoPlay(s) ==
    IF s.isPlaying THEN stopAutoPlay(s) ELSE startAutoPlay(s)

destroy(s) == stopAutoPlay(s)

\* The callback of a variant that ends autoplay at the last slide.
intervalCallback_stopsAtEnd(s) ==
    IF ~s.enableLoop /\ s.currentIndex >= s.totalSlides - 1
    THEN stopAutoPlay(nextSlide(s))
    ELSE nextSlide(s)

\* The callback handed to setInterval by startAutoPlay and resetAutoPlay.
intervalCallback_twice(s) == nextSlide(nextSlide(s))

intervalCallback(s) == nextSlide(s)

\* ---------------------------------------------------------------- touch
Abs(n) == IF n < 0 THEN 0 - n ELSE n

touchStart(s, screenX) == [s EXCEPT !.touchStartX = screenX]

touchEnd_inclusive(s, touchEndX) ==
    LET diff == s.touchStartX - touchEndX
    IN  IF Abs(diff) >= swipeThreshold
        THEN IF diff > 0 THEN nextSlide(s) ELSE previousSlide(s)
        ELSE s

\* touchEndX is written and read inside this one handler; it is the argument.
touchEnd(s, touchEndX) ==
    LET diff == s.touchStartX - touchEndX
    IN  IF Abs(diff) > swipeThreshold
        THEN IF diff > 0 THEN nextSlide(s) ELSE previousSlide(s)
        ELSE s

\* --------------------------------------------------------- construction
createIndicators(s) ==
    [s EXCEPT !.indicators = [i \in 0..(s.totalSlides - 1) |-> FALSE]]

attachEventListeners(s) == [s EXCEPT !.listeners = TRUE]

updateTotalSlides(s) == [s EXCEPT !.totalText = s.totalSlides]

init(s) ==
    updateTotalSlides(updateCarousel(attachEventListeners(createIndicators(s))))

\* The play/pause control as the page markup delivers it.
markupPlayControl ==
    [playClass |-> FALSE, playLabel |-> "Lecture automatique",
     playIcon |-> "triangle"]

\* The field initialisers and the untouched page; fields the constructor
\* assigns later (totalSlides, autoPlayInterval, enableLoop) hold 0 / FALSE
\* until then.
fieldInitializers ==
    [currentIndex  |-> 0,
     totalSlides   |-> 0,
     enableLoop    |-> FALSE,
     isPlaying     |-> FALSE,
     autoPlayTimer |-> NULL,
     timers        |-> {},
     trackOffset   |-> 0,
     indicators    |-> << >>,
     counterText   |-> 0,
     prevDisabled  |-> FALSE,
     nextDisabled  |-> FALSE,
     playClass     |-> markupPlayControl.playClass,
     playLabel     |-> markupPlayControl.playLabel,
     playIcon      |-> markupPlayControl.playIcon,
     autoPlayInterval |-> 0,
     totalText     |-> 0,
     listeners     |-> FALSE,
     touchStartX   |-> 0,
     thrown        |-> "none",
     rendered      |-> FALSE]

\* Index of the first getElement call that throws; 0 when none does.
getElement(present) ==
    LET missing == {i \in 1..Len(RequiredSelectors) :
                        RequiredSelectors[i] \notin present}
    IN  IF missing = {} THEN 0
        ELSE CHOOSE i \in missing : \A j \in missing : i <= j

configure(s, slideCount, config) ==
    [s EXCEPT
        !.totalSlides = slideCount,
        !.autoPlayInterval =
            IF config.autoPlayInterval = << >> \/ config.autoPlayInterval[1] = 0
            THEN DefaultInterval
            ELSE config.autoPlayInterval[1],
        !.enableLoop =
            IF config.enableLoop # << >> THEN config.enableLoop[1] ELSE TRUE]

constructor_lateLookup(present, slideCount, config) ==
    LET failed == getElement(present)
    IN  IF failed = 0
        THEN init(configure(fieldInitializers, slideCount, config))
        ELSE IF failed < Len(RequiredSelectors)
        THEN [fieldInitializers EXCEPT !.thrown = RequiredSelectors[failed]]
        ELSE [init(configure(fieldInitializers, slideCount, config))
                 EXCEPT !.thrown = RequiredSelectors[failed]]

constructor_autoStarts(present, slideCount, config) ==
    LET failed == getElement(present)
        built  == init(configure(fieldInitializers, slideCount, config))
    IN  IF failed # 0
        THEN [fieldInitializers EXCEPT !.thrown = RequiredSelectors[failed]]
        ELSE IF config.enableAutoPlay = <<TRUE>>
        THEN startAutoPlay(built)
        ELSE built

constructor(present, slideCount, config) ==
    LET failed == getElement(present)
    IN  IF failed # 0
        THEN [fieldInitializers EXCEPT !.thrown = RequiredSelectors[failed]]
        ELSE init(configure(fieldInitializers, slideCount, config))

\* -------------------------------------------------------- state machine
Store(s) ==
    /\ currentIndex'  = s.currentIndex
    /\ totalSlides'   = s.totalSlides
    /\ enableLoop'    = s.enableLoop
    /\ isPlaying'     = s.isPlaying
    /\ autoPlayTimer' = s.autoPlayTimer
    /\ timers'        = s.timers
    /\ trackOffset'   = s.trackOffset
    /\ indicators'    = s.indicators
    /\ counterText'   = s.counterText
    /\ prevDisabled'  = s.prevDisabled
    /\ nextDisabled'  = s.nextDisabled
    /\ playClass'     = s.playClass
    /\ playLabel'     = s.playLabel
    /\ playIcon'      = s.playIcon
    /\ autoPlayInterval' = s.autoPlayInterval
    /\ totalText'     = s.totalText
    /\ listeners'     = s.listeners
    /\ touchStartX'   = s.touchStartX
    /\ thrown'        = s.thrown
    /\ rendered'      = s.rendered

\* The constructor returned an object: no getElement call threw.
Constructed == thrown = "none"

NoRun == [active |-> FALSE, start |-> 0, ticks |-> 0]

Handler(name, arg, s) ==
    /\ \E result \in {s} : Store(result)
    /\ lastOp' = [name |-> name, arg |-> arg, prev |-> lastOp.name,
                  before |-> IF lastOp.name = "toggleAutoPlay"
                             THEN <<pre.isPlaying, pre.timers # {}>>
                             ELSE IF lastOp.name \in {"nextSlide",
                                                      "previousSlide"}
                             THEN <<pre.currentIndex>>
                             ELSE << >>]
    /\ pre' = [this EXCEPT !.rendered = rendered]

Init ==
    \E present \in SUBSET Selectors, slideCount \in SlideCounts,
       config \in Configs :
        LET s == constructor(present, slideCount, config)
        IN  /\ currentIndex  = s.currentIndex
            /\ totalSlides   = s.totalSlides
            /\ enableLoop    = s.enableLoop
            /\ isPlaying     = s.isPlaying
            /\ autoPlayTimer = s.autoPlayTimer
            /\ timers        = s.timers
            /\ trackOffset   = s.trackOffset
            /\ indicators    = s.indicators
            /\ counterText   = s.counterText
            /\ prevDisabled  = s.prevDisabled
            /\ nextDisabled  = s.nextDisabled
            /\ playClass     = s.playClass
            /\ playLabel     = s.playLabel
            /\ playIcon      = s.playIcon
            /\ autoPlayInterval = s.autoPlayInterval
            /\ totalText     = s.totalText
            /\ listeners     = s.listeners
            /\ touchStartX   = s.touchStartX
            /\ thrown        = s.thrown
            /\ rendered      = s.rendered
            /\ lastOp        = [name |-> "constructor",
                                arg |-> [config |-> config,
                                         present |-> present],
                                prev |-> "none", before |-> << >>]
            /\ pre           = s
            /\ run           = NoRun

\* prevBtn click, ArrowLeft
PreviousSlide ==
    /\ listeners
    /\ Handler("previousSlide", 0, previousSlide(this))
    /\ run' = NoRun

\* nextBtn click, ArrowRight
NextSlide ==
    /\ listeners
    /\ Handler("nextSlide", 0, nextSlide(this))
    /\ run' = NoRun

\* indicator click (index in range) and the public method (any integer)
GoToSlide ==
    \E index \in IndexArgs :
        /\ Constructed
        /\ Handler("goToSlide", index, goToSlide(this, index))
        /\ run' = NoRun

\* playPauseBtn click
ToggleAutoPlay ==
    /\ listeners
    /\ isPlaying \/ Cardinality(timers) < MaxTimers
    /\ Handler("toggleAutoPlay", 0, toggleAutoPlay(this))
    /\ run' = IF isPlaying THEN NoRun
              ELSE [active |-> TRUE, start |-> currentIndex, ticks |-> 0]

\* public method, callable whether or not autoplay is running
StartAutoPlay ==
    /\ Constructed
    /\ Cardinality(timers) < MaxTimers
    /\ Handler("startAutoPlay", 0, startAutoPlay(this))
    /\ run' = [active |-> TRUE, start |-> currentIndex, ticks |-> 0]

StopAutoPlay ==
    /\ Constructed
    /\ Handler("stopAutoPlay", 0, stopAutoPlay(this))
    /\ run' = NoRun

Destroy ==
    /\ Constructed
    /\ Handler("destroy", 0, destroy(this))
    /\ run' = NoRun

\* touchstart on the track
TouchStart ==
    \E screenX \in ScreenXs :
        /\ listeners
        /\ Handler("touchstart", screenX, touchStart(this, screenX))
        /\ run' = NoRun

\* touchend on the track
TouchEnd ==
    \E screenX \in ScreenXs :
        /\ listeners
        /\ Handler("touchend", screenX, touchEnd(this, screenX))
        /\ run' = NoRun

\* a live interval timer fires
Tick ==
    \E h \in timers :
        /\ Handler("tick", h, intervalCallback(this))
        /\ run' = IF run.active /\ run.ticks < TickWindow
                  THEN [run EXCEPT !.ticks = @ + 1]
                  ELSE NoRun

Next ==
    \/ PreviousSlide
    \/ NextSlide
    \/ GoToSlide
    \/ ToggleAutoPlay
    \/ StartAutoPlay
    \/ StopAutoPlay
    \/ Destroy
    \/ TouchStart
    \/ TouchEnd
    \/ Tick

Spec == Init /\ [][Next]_vars

\* Autoplay left alone: slides may be picked and autoplay started, and once
\* autoplay runs only the interval timers act.  A live interval timer keeps
\* firing, hence the weak fairness of Tick.
AutoplayNext ==
    \/ ~isPlaying /\ GoToSlide
    \/ ~isPlaying /\ ToggleAutoPlay
    \/ StartAutoPlay
    \/ Tick

AutoplaySpec == Init /\ [][AutoplayNext]_vars /\ WF_vars(Tick)

TypeOK ==
    /\ totalSlides \in SlideCounts
    /\ enableLoop \in BOOLEAN
    /\ isPlaying \in BOOLEAN
    /\ currentIndex \in -1..MaxSlides
    /\ autoPlayTimer \in Handles \cup {NULL}
    /\ timers \subseteq Handles
    /\ Cardinality(timers) <= MaxTimers
    /\ DOMAIN indicators = 0..(totalSlides - 1)
    /\ autoPlayInterval \in IntervalArgs \cup {0, DefaultInterval}
    /\ touchStartX \in ScreenXs
    /\ listeners \in BOOLEAN
    /\ thrown \in Selectors \cup {"none"}

\* ------------------------------------------------------------ properties
ManualNavigation ==
    \/ lastOp.name \in {"nextSlide", "previousSlide"}
    \/ lastOp.name = "goToSlide" /\ lastOp.arg >= 0 /\ lastOp.arg < totalSlides

\* The object now and before the last handler, without the render history.
Shown(s) == [s EXCEPT !.rendered = FALSE]

\* C1: with at least one slide, currentIndex is within 0..totalSlides-1 in
\* every reachable state, whatever navigation, autoplay calls and ticks ran.
C1_IndexInRange ==
    totalSlides >= 1 => (0 <= currentIndex /\ currentIndex <= totalSlides - 1)

C1_Witness ==
    /\ lastOp.name = "previousSlide"
    /\ enableLoop
    /\ totalSlides >= 2
    /\ pre.currentIndex = 0
    /\ currentIndex = totalSlides - 1

\* C2: nextSlide from index i yields i+1 below the last slide, 0 at the last
\* slide when looping, and i at the last slide when not looping.
C2_NextSlideResult ==
    (lastOp.name = "nextSlide" /\ totalSlides >= 1) =>
        currentIndex =
            IF pre.currentIndex < totalSlides - 1 THEN pre.currentIndex + 1
            ELSE IF enableLoop THEN 0
            ELSE pre.currentIndex

C2_Witness ==
    /\ lastOp.name = "nextSlide"
    /\ totalSlides = 3
    /\ ~enableLoop
    /\ pre.currentIndex = 2
    /\ currentIndex = 2

\* C3: previousSlide from index i yields i-1 above the first slide,
\* totalSlides-1 at the first slide when looping, and i when not looping.
C3_PreviousSlideResult ==
    (lastOp.name = "previousSlide" /\ totalSlides >= 1) =>
        currentIndex =
            IF pre.currentIndex > 0 THEN pre.currentIndex - 1
            ELSE IF enableLoop THEN totalSlides - 1
            ELSE pre.currentIndex

C3_Witness ==
    /\ lastOp.name = "previousSlide"
    /\ totalSlides = 3
    /\ enableLoop
    /\ pre.currentIndex = 0
    /\ currentIndex = 2

\* C4: goToSlide(k) with 0 <= k <= totalSlides-1 sets currentIndex to k and
\* leaves isPlaying, enableLoop and totalSlides as they were.
C4_GoToSlideValid ==
    (lastOp.name = "goToSlide" /\ 0 <= lastOp.arg
                               /\ lastOp.arg <= pre.totalSlides - 1) =>
        /\ currentIndex = lastOp.arg
        /\ isPlaying = pre.isPlaying
        /\ enableLoop = pre.enableLoop
        /\ totalSlides = pre.totalSlides

C4_Witness ==
    /\ lastOp.name = "goToSlide"
    /\ lastOp.arg = 0
    /\ pre.currentIndex = 2
    /\ pre.isPlaying
    /\ currentIndex = 0

\* C5: goToSlide(k) with k < 0 or k >= totalSlides changes nothing: index,
\* isPlaying, timer handle, live timers and every rendered output are as
\* before, and updateCarousel is not run.
C5_GoToSlideOutOfRange ==
    (lastOp.name = "goToSlide" /\ (lastOp.arg < 0
                                   \/ lastOp.arg >= pre.totalSlides)) =>
        /\ Shown(this) = Shown(pre)
        /\ ~rendered

C5_Witness ==
    /\ lastOp.name = "goToSlide"
    /\ totalSlides >= 1
    /\ lastOp.arg = totalSlides
    /\ pre.isPlaying
    /\ autoPlayTimer = pre.autoPlayTimer
    /\ autoPlayTimer # NULL

\* C6: at most one autoplay interval timer is live in every reachable state.
C6_AtMostOneTimer ==
    Cardinality(timers) <= 1

\* C7: after stopAutoPlay returns isPlaying is false and no timer is live;
\* hence whenever isPlaying is false no tick can fire.
C7_StopLeavesNoTimer ==
    /\ lastOp.name = "stopAutoPlay" => (~isPlaying /\ timers = {})
    /\ ~isPlaying => timers = {}

\* C8: stopAutoPlay leaves isPlaying false, the handle null and the index
\* untouched; a second stopAutoPlay right after the first changes nothing,
\* and stopAutoPlay while not playing keeps currentIndex and isPlaying.
C8_StopIdempotent ==
    lastOp.name = "stopAutoPlay" =>
        /\ ~isPlaying
        /\ autoPlayTimer = NULL
        /\ currentIndex = pre.currentIndex
        /\ lastOp.prev = "stopAutoPlay" => Shown(this) = Shown(pre)
        /\ ~pre.isPlaying => isPlaying = pre.isPlaying

C8_Witness ==
    /\ lastOp.name = "stopAutoPlay"
    /\ lastOp.prev = "stopAutoPlay"
    /\ currentIndex > 0
    /\ ~isPlaying
    /\ autoPlayTimer = NULL

\* C9: manual navigation while playing cancels the scheduled timer and
\* schedules a fresh one: the handle changes and afterwards exactly one
\* timer is live, the one just created.
C9_ManualNavigationReplacesTimer ==
    (ManualNavigation /\ pre.isPlaying) =>
        /\ autoPlayTimer # pre.autoPlayTimer
        /\ pre.autoPlayTimer \notin timers
        /\ timers = {autoPlayTimer}

\* C10: with looping and at least one slide, after autoplay is started at
\* index i and k ticks follow with no other input, currentIndex is
\* (i + k) mod totalSlides; each tick advances by exactly one slide.
C10_TicksAdvanceByOne ==
    (enableLoop /\ totalSlides >= 1) =>
        /\ run.active =>
               currentIndex = (run.start + run.ticks) % totalSlides
        /\ lastOp.name = "tick" =>
               currentIndex = (pre.currentIndex + 1) % totalSlides

C10_Witness ==
    /\ enableLoop
    /\ totalSlides = 4
    /\ run.active
    /\ run.start = 0
    /\ run.ticks = 4
    /\ lastOp.name = "tick"
    /\ currentIndex = 0

AutomaticOrManualNavigation ==
    lastOp.name \in {"nextSlide", "previousSlide", "goToSlide", "touchstart",
                     "touchend", "tick"}

\* C11: after construction and after every transition, with at least one
\* slide, exactly one indicator carries 'active' and it is the one at
\* currentIndex.
C11_OneActiveIndicator ==
    (Constructed /\ totalSlides >= 1) =>
        /\ \A i \in 0..(totalSlides - 1) : indicators[i] <=> (i = currentIndex)
        /\ Cardinality({i \in 0..(totalSlides - 1) : indicators[i]}) = 1

C11_Witness ==
    /\ lastOp.name = "tick"
    /\ totalSlides = 3
    /\ pre.indicators[1]
    /\ currentIndex = 2
    /\ indicators[2]
    /\ ~indicators[1]

\* C12: without looping the previous button is disabled exactly at index 0
\* and the next button exactly at index totalSlides-1; with looping no
\* handler changes either button's disabled state and neither is disabled.
C12_ButtonsDisabledAtBoundaries ==
    Constructed =>
        /\ ~enableLoop =>
               /\ prevDisabled <=> (currentIndex = 0)
               /\ nextDisabled <=> (currentIndex = totalSlides - 1)
        /\ enableLoop =>
               /\ prevDisabled = pre.prevDisabled
               /\ nextDisabled = pre.nextDisabled
               /\ ~prevDisabled
               /\ ~nextDisabled

C12_Witness ==
    /\ lastOp.name = "nextSlide"
    /\ ~enableLoop
    /\ totalSlides = 3
    /\ currentIndex = 2
    /\ nextDisabled
    /\ ~prevDisabled
    /\ ~pre.nextDisabled

\* C13: construction fails exactly when a required element is missing, and
\* then nothing is initialised: no indicator, no listener, no render, no
\* timer; the fields and the page are as before the constructor body ran.
C13_NoPartialInitialisation ==
    /\ lastOp.name = "constructor" =>
           (Constructed <=> lastOp.arg.present = Selectors)
    /\ ~Constructed =>
           /\ indicators = << >>
           /\ ~listeners
           /\ ~rendered
           /\ timers = {}
           /\ this = [fieldInitializers EXCEPT !.thrown = thrown]

C13_Witness ==
    /\ lastOp.name = "constructor"
    /\ lastOp.arg.present = Selectors \ {"#playPauseBtn"}
    /\ thrown = "#playPauseBtn"
    /\ ~listeners

\* C14: for every accepted configuration the state right after construction
\* has currentIndex 0, isPlaying false and no timer; isPlaying turns true
\* only in startAutoPlay or toggleAutoPlay.
C14_NoAutoStart ==
    /\ (lastOp.name = "constructor" /\ Constructed) =>
           /\ currentIndex = 0
           /\ ~isPlaying
           /\ autoPlayTimer = NULL
           /\ timers = {}
    /\ (isPlaying /\ ~pre.isPlaying) =>
           lastOp.name \in {"startAutoPlay", "toggleAutoPlay"}

C14_Witness ==
    /\ lastOp.name = "constructor"
    /\ Constructed
    /\ lastOp.arg.config.enableAutoPlay = <<TRUE>>
    /\ ~isPlaying

\* C15: a touch gesture from start X s to end X e navigates once when
\* |s - e| > 50, by nextSlide when s > e and by previousSlide when s < e;
\* when |s - e| <= 50 it calls nothing and the carousel is unchanged.
C15_SwipeThreshold ==
    lastOp.name = "touchend" =>
        LET s == pre.touchStartX
            e == lastOp.arg
        IN  IF s - e > 50
            THEN Shown(this) = Shown(nextSlide(pre)) /\ rendered
            ELSE IF e - s > 50
            THEN Shown(this) = Shown(previousSlide(pre)) /\ rendered
            ELSE Shown(this) = Shown(pre) /\ ~rendered

C15_Witness ==
    /\ lastOp.name = "touchend"
    /\ pre.touchStartX - lastOp.arg = 51
    /\ currentIndex = pre.currentIndex + 1
    /\ pre.isPlaying
    /\ autoPlayTimer # pre.autoPlayTimer

\* C16: the interval stored at construction is > 0 for every value of the
\* autoPlayInterval option, is 3000 when the option is absent, and is never
\* modified afterwards.
C16_IntervalPositive ==
    Constructed =>
        /\ autoPlayInterval > 0
        /\ (lastOp.name = "constructor"
              /\ lastOp.arg.config.autoPlayInterval = << >>) =>
               autoPlayInterval = 3000
        /\ autoPlayInterval = pre.autoPlayInterval

\* C17: after destroy isPlaying is false and no timer is live, so without
\* further input currentIndex never changes again.
C17_DestroyReleasesTimer ==
    lastOp.name = "destroy" => (~isPlaying /\ timers = {})

\* C18: isPlaying changes only in startAutoPlay, stopAutoPlay,
\* toggleAutoPlay and destroy; navigation, touch and ticks keep it; no
\* handler changes totalSlides or enableLoop.
C18_FrameOfNavigation ==
    /\ isPlaying # pre.isPlaying =>
           lastOp.name \in {"startAutoPlay", "stopAutoPlay",
                            "toggleAutoPlay", "destroy"}
    /\ AutomaticOrManualNavigation => isPlaying = pre.isPlaying
    /\ totalSlides = pre.totalSlides
    /\ enableLoop = pre.enableLoop

C18_Witness ==
    /\ lastOp.name = "tick"
    /\ ~enableLoop
    /\ totalSlides >= 2
    /\ pre.currentIndex = totalSlides - 1
    /\ pre.isPlaying
    /\ isPlaying

\* C19: toggleAutoPlay flips isPlaying, stopping when playing and starting
\* otherwise, and keeps currentIndex; two toggles in a row restore isPlaying
\* and whether some timer is live.
C19_ToggleFlips ==
    lastOp.name = "toggleAutoPlay" =>
        /\ isPlaying = ~pre.isPlaying
        /\ currentIndex = pre.currentIndex
        /\ pre.isPlaying =>
               /\ autoPlayTimer = NULL
               /\ timers = pre.timers \ {pre.autoPlayTimer}
        /\ ~pre.isPlaying =>
               /\ autoPlayTimer \notin pre.timers
               /\ timers = pre.timers \cup {autoPlayTimer}
        /\ lastOp.prev = "toggleAutoPlay" =>
               /\ isPlaying = lastOp.before[1]
               /\ (timers # {}) = lastOp.before[2]

C19_Witness ==
    /\ lastOp.name = "toggleAutoPlay"
    /\ lastOp.prev = "toggleAutoPlay"
    /\ lastOp.before = <<TRUE, TRUE>>
    /\ isPlaying
    /\ currentIndex > 0

C21_ZeroSlidesInert ==
    (Constructed /\ totalSlides = 0) => currentIndex = 0

\* C22: isPlaying is true exactly when the stored autoPlayTimer handle is
\* non-null, in every reachable state.
C22_PlayingIffHandle ==
    isPlaying <=> (autoPlayTimer # NULL)

C22_Witness ==
    /\ lastOp.name = "nextSlide"
    /\ lastOp.prev = "stopAutoPlay"
    /\ ~isPlaying
    /\ autoPlayTimer = NULL
    /\ timers # {}

\* C23: with looping and at least one slide, nextSlide then previousSlide,
\* and previousSlide then nextSlide, return currentIndex to where it was;
\* without looping the round trip fails exactly where the first call is a
\* no-op: from totalSlides-1 for next-then-previous and from 0 for
\* previous-then-next, when there are at least two slides.
C23_RoundTrip ==
    totalSlides >= 1 =>
        /\ (lastOp.name = "previousSlide" /\ lastOp.prev = "nextSlide") =>
               LET start == lastOp.before[1]
               IN  IF enableLoop
                   THEN currentIndex = start
                   ELSE (currentIndex # start) <=>
                            (start = totalSlides - 1 /\ totalSlides >= 2)
        /\ (lastOp.name = "nextSlide" /\ lastOp.prev = "previousSlide") =>
               LET start == lastOp.before[1]
               IN  IF enableLoop
                   THEN currentIndex = start
                   ELSE (currentIndex # start) <=>
                            (start = 0 /\ totalSlides >= 2)

C23_Witness ==
    /\ lastOp.name = "previousSlide"
    /\ lastOp.prev = "nextSlide"
    /\ ~enableLoop
    /\ totalSlides = 3
    /\ lastOp.before = <<2>>
    /\ pre.currentIndex = 2
    /\ currentIndex = 1

\* C24: without looping, while playing at the last slide, a tick or a
\* nextSlide keeps currentIndex and isPlaying, still renders and replaces
\* the timer; autoplay ends only by stopAutoPlay, toggleAutoPlay or destroy
\* and while it plays its timer is live, so ticks stay possible.
C24_AutoplayIdlesAtEnd ==
    /\ (/\ lastOp.name \in {"tick", "nextSlide"}
        /\ ~enableLoop
        /\ totalSlides >= 1
        /\ pre.isPlaying
        /\ pre.currentIndex = totalSlides - 1) =>
           /\ currentIndex = totalSlides - 1
           /\ isPlaying
           /\ rendered
           /\ autoPlayTimer # pre.autoPlayTimer
           /\ pre.autoPlayTimer \notin timers
           /\ autoPlayTimer \in timers
    /\ (pre.isPlaying /\ ~isPlaying) =>
           lastOp.name \in {"stopAutoPlay", "toggleAutoPlay", "destroy"}
    /\ isPlaying => autoPlayTimer \in timers

C24_Witness ==
    /\ lastOp.name = "tick"
    /\ lastOp.prev = "tick"
    /\ ~enableLoop
    /\ totalSlides = 3
    /\ pre.isPlaying
    /\ pre.currentIndex = 2
    /\ currentIndex = 2
    /\ isPlaying

\* C25: with looping, autoplay running and only the timers acting, every
\* slide index becomes current again and again, and the carousel is never
\* left without a live timer while it plays.
C25_AutoplayVisitsEverySlide ==
    /\ [](isPlaying => autoPlayTimer \in timers)
    /\ \A i \in 0..(MaxSlides - 1) :
           []((isPlaying /\ enableLoop /\ i < totalSlides)
                  => <>(currentIndex = i))

C25_Witness ==
    /\ lastOp.name = "tick"
    /\ enableLoop
    /\ totalSlides = 3
    /\ isPlaying
    /\ pre.currentIndex = 2
    /\ currentIndex = 0
    /\ autoPlayTimer \in timers

====
